---- MODULE Spec2Model ----
(***************************************************************************)
(* Model of act/qc/arm.py: add_dqr_to_qc, which queries the ARM DQR web    *)
(* service once per variable and registers every returned Data Quality     *)
(* Report as a quality-control test on the dataset.                        *)
(*                                                                         *)
(* One behaviour of the model is one call of add_dqr_to_qc.  The arguments *)
(* and the dataset are chosen in Init; the web service's answers (status   *)
(* code and body) are chosen when the request is issued.  Timestamps are   *)
(* integers (epoch seconds); a response line is the list of fields that    *)
(* line.split('|') yields, restricted to well-formed lines.  Arrays are    *)
(* one-dimensional and positions are 0-based as in numpy.                  *)
(***************************************************************************)
EXTENDS Integers, Sequences, FiniteSets, TLC

VARIABLES
    ds_attrs,              \* ds.attrs restricted to the two datastream keys
    cleaned,               \* ds.clean.cleanup() has run on the dataset
    qc_len,                \* length of each variable's ancillary QC array
    qc_tests,              \* tests registered on each variable, in order
    variable,              \* the `variable` argument / the resolved list
    exclude,               \* the `exclude` argument
    include,               \* the `include` argument
    normalize_assessment,  \* the `normalize_assessment` argument
    cleanup_qc,            \* the `cleanup_qc` argument
    dqr_link,              \* the `dqr_link` argument
    skip_location_vars,    \* the `skip_location_vars` argument
    pc,                    \* position of the call in the function body
    error,                 \* the exception that left the function, if any
    datastream,            \* local `datastream`
    vi,                    \* position of `for var_name in variable`
    requests,              \* var_name of every requests.get issued so far
    status,                \* req.status_code of the last request
    dqrs,                  \* req.text.splitlines() of the last request
    li,                    \* position of `for line in dqrs`
    dqr_results,           \* local dict `dqr_results`, in insertion order
    ri,                    \* position of `for key, value in dqr_results.items()`
    console                \* everything print() has written

vars == <<ds_attrs, cleaned, qc_len, qc_tests, variable, exclude, include,
          normalize_assessment, cleanup_qc, dqr_link, skip_location_vars,
          pc, error, datastream, vi, requests, status, dqrs, li,
          dqr_results, ri, console>>

args == <<ds_attrs, qc_len, exclude, include, normalize_assessment,
          cleanup_qc, dqr_link, skip_location_vars>>

-----------------------------------------------------------------------------
(* Bounds of the model *)

\* number of timestamps of the dataset's time coordinate
TimeLen == 3
\* number of elements of the variable that has no time dimension
LatLen == 2
\* largest number of lines in one response body
MaxLines == 2

-----------------------------------------------------------------------------
(* The dataset *)

DEFAULT_DATASTREAM_NAME == "act_datastream"

\* ds['time'].values: position p (0-based) holds epoch second 10 * (p + 1)
time == [p \in 0..(TimeLen - 1) |-> 10 * (p + 1)]

\* set(ds.data_vars): one time-indexed variable, one location variable
\* without time dimension, and the QC variable of the first
data_vars == {"temp_mean", "lat", "qc_temp_mean"}

\* ds.clean.matched_qc_variables
matched_qc_variables == {"qc_temp_mean"}

\* ds[v].dims
dims(v) == IF v = "lat" THEN {} ELSE {"time"}

\* positions of ds[v].values
Positions(v) == IF "time" \in dims(v) THEN 0..(TimeLen - 1) ELSE 0..(LatLen - 1)

\* faulty variant: 'lat' is missing from the list
loc_vars_NoLat == {"lon", "alt", "latitude", "longitude", "altitude"}

\* line 111
loc_vars == {"lat", "lon", "alt", "latitude", "longitude", "altitude"}

-----------------------------------------------------------------------------
(* Values the environment supplies *)

DqrIds == {"D1", "D2"}

\* [starttime, endtime] of a report: the first timestamp, the remaining
\* timestamps, and a range past the end of the time coordinate
Ranges == { <<10, 10>>, <<20, 10 * TimeLen>>,
            <<10 * (TimeLen + 1), 10 * (TimeLen + 2)>> }

Subject(id) == "subject"

\* line.split('|') of one response line: dqrid, starttime, endtime, metric, subject
Lines == { <<id, r[1], r[2], "Incorrect", Subject(id)>> : id \in DqrIds, r \in Ranges }

Bodies == UNION { [1..n -> Lines] : n \in 0..MaxLines }

\* req.text.splitlines() by status: a full report list with 200, at most one
\* line with another status that is let through, unread when the call raises
BodiesOf(code) ==
    IF code = 200 THEN Bodies
    ELSE IF code \in {400, 500} THEN { <<>> }
    ELSE { b \in Bodies : Len(b) <= 1 }

StatusCodes == {200, 400, 404, 500}

AttrChoices ==
    { <<>>,
      [k \in {"datastream"} |-> "sgpmetE13.b1"],
      [k \in {"datastream"} |-> DEFAULT_DATASTREAM_NAME],
      [k \in {"_datastream"} |-> "sgpmetE13.b1"],
      [k \in {"_datastream"} |-> DEFAULT_DATASTREAM_NAME],
      [k \in {"datastream", "_datastream"} |->
          IF k = "datastream" THEN DEFAULT_DATASTREAM_NAME ELSE "sgpmetE13.b1"] }

None == [isNone |-> TRUE, val |-> {}]
Some(v) == [isNone |-> FALSE, val |-> v]

IdLists == {None, Some({"D1"})}

\* the `variable` argument: None, a single name, or a list of names.  `kind`
\* is the argument as passed; `val` is the list the loop of line 112 runs over
\* (lines 103-108 fill it in for None and wrap a single name)
VariableChoices ==
    { [kind |-> "None", val |-> <<>>],
      [kind |-> "str", val |-> <<"temp_mean">>],
      [kind |-> "list", val |-> <<"lat">>],
      [kind |-> "list", val |-> <<"temp_mean", "lat">>] }

\* the QC array of temp_mean either matches the data or is one short
QcLenChoices ==
    { [v \in data_vars |-> Cardinality(Positions(v))],
      [v \in data_vars |-> IF v = "temp_mean" THEN TimeLen - 1
                           ELSE Cardinality(Positions(v))] }

\* The settings of a call that depart from the plain call add_dqr_to_qc(ds)
\* (the defaults of lines 16-23) on a dataset that carries 'datastream' and
\* whose QC arrays match the data
Departures(attrs, var, excl, incl, norm, clean, link, skip, qlen) ==
    {n \in {"attrs", "variable", "exclude", "include", "normalize_assessment",
            "cleanup_qc", "dqr_link", "skip_location_vars", "qc_len"} :
        \/ n = "attrs" /\ attrs # [k \in {"datastream"} |-> "sgpmetE13.b1"]
        \/ n = "variable" /\ var.kind # "None"
        \/ n = "exclude" /\ ~excl.isNone
        \/ n = "include" /\ ~incl.isNone
        \/ n = "normalize_assessment" /\ ~norm
        \/ n = "cleanup_qc" /\ ~clean
        \/ n = "dqr_link" /\ link
        \/ n = "skip_location_vars" /\ skip
        \/ n = "qc_len" /\ qlen["temp_mean"] # TimeLen}

-----------------------------------------------------------------------------
(* Helpers *)

Range(s) == { s[i] : i \in DOMAIN s }

RECURSIVE SetToSeqs(_)
\* every ordering list(set(...)) can produce
SetToSeqs(S) ==
    IF S = {} THEN { <<>> }
    ELSE UNION { { <<x>> \o t : t \in SetToSeqs(S \ {x}) } : x \in S }

RECURSIVE Ascending(_, _)
\* the members of S as an ascending sequence, starting from lo
Ascending(S, lo) ==
    IF S = {} THEN <<>>
    ELSE IF lo \in S THEN <<lo>> \o Ascending(S \ {lo}, lo + 1)
    ELSE Ascending(S, lo + 1)

\* np.where((time >= starttime) & (time <= endtime))[0]
TimeIndex(starttime, endtime) ==
    Ascending({ p \in DOMAIN time : time[p] >= starttime /\ time[p] <= endtime }, 0)

\* np.where((values == values) | np.isnan(values)): every position
WholeArrayIndex(v) == Ascending(Positions(v), 0)

Keys(results) == { results[i].key : i \in DOMAIN results }

KeyPos(results, k) == CHOOSE i \in DOMAIN results : results[i].key = k

var_name == variable.val[vi]

-----------------------------------------------------------------------------
(* The pieces of add_dqr_to_qc *)

\* faulty variant: the comparison with the default name is left out
ResolveDatastream_NoDefaultCheck(attrs) ==
    IF "datastream" \in DOMAIN attrs
    THEN [error |-> "", datastream |-> attrs["datastream"]]
    ELSE IF "_datastream" \in DOMAIN attrs
    THEN [error |-> "", datastream |-> attrs["_datastream"]]
    ELSE [error |-> "ValueError: Dataset does not have datastream attribute",
          datastream |-> ""]

\* lines 87-96: the datastream comes from 'datastream', else '_datastream';
\* a missing attribute and the default name both raise ValueError
ResolveDatastream(attrs) ==
    LET found == IF "datastream" \in DOMAIN attrs THEN <<attrs["datastream"]>>
                 ELSE IF "_datastream" \in DOMAIN attrs THEN <<attrs["_datastream"]>>
                 ELSE <<>>
    IN  IF found = <<>>
        THEN [error |-> "ValueError: Dataset does not have datastream attribute",
              datastream |-> ""]
        ELSE IF found[1] = DEFAULT_DATASTREAM_NAME
        THEN [error |-> "ValueError: 'datastream' name set to default value",
              datastream |-> found[1]]
        ELSE [error |-> "", datastream |-> found[1]]

\* faulty variant: status 500 is let through
StatusError_Only400(code) ==
    IF code = 400 THEN "ValueError: Check parameters" ELSE ""

\* lines 132-136: the exception raised for a status code, "" for none
StatusError(code) ==
    IF code = 400 THEN "ValueError: Check parameters"
    ELSE IF code = 500 THEN "ValueError: DQR Webservice Temporarily Down"
    ELSE ""

\* faulty variant: the exclude list is not consulted
FilteredOut_IncludeOnly(dqr_no, excl, incl) ==
    (~incl.isNone) /\ dqr_no \notin incl.val

\* lines 146-152: the line is skipped by the exclude or the include list
FilteredOut(dqr_no, excl, incl) ==
    IF (~excl.isNone) /\ dqr_no \in excl.val THEN TRUE
    ELSE IF (~incl.isNone) /\ dqr_no \notin incl.val THEN TRUE
    ELSE FALSE

\* faulty variant: a variable without time dimension keeps the time positions
RecordIndex_TimeOnly(v, starttime, endtime) ==
    TimeIndex(starttime, endtime)

\* faulty variant: the whole-array index is taken before the test for an empty range
RecordIndex_NoEmptyCheck(v, starttime, endtime) ==
    IF "time" \notin dims(v) THEN WholeArrayIndex(v)
    ELSE TimeIndex(starttime, endtime)

\* lines 154-164: the positions a line applies to; <<>> when the line's
\* range holds no timestamp of the time coordinate (the line is skipped)
RecordIndex(v, starttime, endtime) ==
    LET ind == TimeIndex(starttime, endtime)
    IN  IF ind = <<>> THEN <<>>
        ELSE IF "time" \notin dims(v) THEN WholeArrayIndex(v)
        ELSE ind

\* faulty variant: a later line of a known id replaces the positions of the record
MergeRecord_Overwrite(results, line, ind) ==
    IF line[1] \in Keys(results)
    THEN [results EXCEPT ![KeyPos(results, line[1])].index = ind]
    ELSE Append(results, [key |-> line[1],
                          index |-> ind,
                          test_assessment |-> line[4],
                          test_meaning |-> <<line[1], line[Len(line)]>>])

\* lines 166-173: append to the record of a known id, else create the record
MergeRecord(results, line, ind) ==
    IF line[1] \in Keys(results)
    THEN [results EXCEPT ![KeyPos(results, line[1])].index = @ \o ind]
    ELSE Append(results, [key |-> line[1],
                          index |-> ind,
                          test_assessment |-> line[4],
                          test_meaning |-> <<line[1], line[Len(line)]>>])

\* faulty variant: the notice is printed for every line that is merged
LinkNotice_EveryLine(results, line, link) ==
    IF link
    THEN << [kind |-> "link", dqr_no |-> line[1], metric |-> line[4]] >>
    ELSE <<>>

\* lines 174-176: what the line prints
LinkNotice(results, line, link) ==
    IF link /\ line[1] \notin Keys(results)
    THEN << [kind |-> "link", dqr_no |-> line[1], metric |-> line[4]] >>
    ELSE <<>>

\* ds.qcfilter.add_test raises IndexError for a position outside the QC array
AddTestRaises(v, index, qlen) == \E i \in DOMAIN index : index[i] >= qlen[v]

\* ds.qcfilter.add_test: the test is appended to the variable's tests
AddTestResult(tests, v, value) ==
    [tests EXCEPT ![v] = Append(@, [index |-> value.index,
                                    test_meaning |-> value.test_meaning,
                                    test_assessment |-> value.test_assessment])]

\* ds.clean.normalize_assessment: DQR terms become the embedded QC terms
NormalizeTerm(a) ==
    IF a = "Incorrect" THEN "Bad" ELSE IF a = "Suspect" THEN "Indeterminate" ELSE a

NormalizeResult(tests, v) ==
    [tests EXCEPT ![v] = [i \in DOMAIN @ |->
                             [@[i] EXCEPT !.test_assessment = NormalizeTerm(@)]]]

-----------------------------------------------------------------------------
(* The call *)

Init ==
    /\ ds_attrs \in AttrChoices
    /\ qc_len \in QcLenChoices
    /\ variable \in VariableChoices
    /\ exclude \in IdLists
    /\ include \in IdLists
    /\ normalize_assessment \in BOOLEAN
    /\ cleanup_qc \in BOOLEAN
    /\ dqr_link \in BOOLEAN
    /\ skip_location_vars \in BOOLEAN
    \* every pair of settings is covered: at most two depart from the defaults
    /\ Cardinality(Departures(ds_attrs, variable, exclude, include,
                              normalize_assessment, cleanup_qc, dqr_link,
                              skip_location_vars, qc_len)) <= 2
    /\ cleaned = FALSE
    /\ qc_tests = [v \in data_vars |-> <<>>]
    /\ pc = "start"
    /\ error = ""
    /\ datastream = ""
    /\ vi = 0
    /\ requests = <<>>
    /\ status = 0
    /\ dqrs = <<>>
    /\ li = 0
    /\ dqr_results = <<>>
    /\ ri = 0
    /\ console = <<>>

\* lines 86-96
GetDatastream ==
    /\ pc = "start"
    /\ LET r == ResolveDatastream(ds_attrs)
       IN  /\ datastream' = r.datastream
           /\ error' = r.error
           /\ pc' = IF r.error = "" THEN "cleanup" ELSE "raised"
    /\ UNCHANGED <<args, cleaned, qc_tests, variable, vi, requests, status,
                   dqrs, li, dqr_results, ri, console>>

\* lines 98-108
ResolveVariables ==
    /\ pc = "cleanup"
    /\ cleaned' = cleanup_qc
    /\ IF variable.kind = "None"
       THEN \E order \in SetToSeqs(data_vars \ matched_qc_variables) :
               variable' = [variable EXCEPT !.val = order]
       ELSE UNCHANGED variable
    /\ vi' = 1
    /\ pc' = "loop"
    /\ UNCHANGED <<args, qc_tests, error, datastream, requests, status,
                   dqrs, li, dqr_results, ri, console>>

\* lines 112-115: a location variable is passed over
SkipLocationVar ==
    /\ pc = "loop"
    /\ vi <= Len(variable.val)
    /\ skip_location_vars /\ var_name \in loc_vars
    /\ vi' = vi + 1
    /\ UNCHANGED <<args, cleaned, qc_tests, variable, pc, error, datastream,
                   requests, status, dqrs, li, dqr_results, ri, console>>

\* lines 116-141: the request and the check of its status
Request ==
    /\ pc = "loop"
    /\ vi <= Len(variable.val)
    /\ ~(skip_location_vars /\ var_name \in loc_vars)
    /\ \E code \in StatusCodes :
       \E body \in BodiesOf(code) :
          /\ requests' = Append(requests, var_name)
          /\ status' = code
          /\ IF StatusError(code) # ""
             THEN /\ error' = StatusError(code)
                  /\ pc' = "raised"
                  /\ UNCHANGED <<dqrs, li, dqr_results>>
             ELSE /\ dqrs' = body
                  /\ li' = 1
                  /\ dqr_results' = <<>>
                  /\ pc' = "lines"
                  /\ UNCHANGED error
    /\ UNCHANGED <<args, cleaned, qc_tests, variable, datastream, vi, ri, console>>

\* lines 142-176: one iteration of `for line in dqrs`
ParseLine ==
    /\ pc = "lines"
    /\ li <= Len(dqrs)
    /\ LET line == dqrs[li]
           ind == RecordIndex(var_name, line[2], line[3])
       IN  IF FilteredOut(line[1], exclude, include) \/ ind = <<>>
           THEN UNCHANGED <<dqr_results, console>>
           ELSE /\ dqr_results' = MergeRecord(dqr_results, line, ind)
                /\ console' = console \o LinkNotice(dqr_results, line, dqr_link)
    /\ li' = li + 1
    /\ UNCHANGED <<args, cleaned, qc_tests, variable, pc, error, datastream,
                   vi, requests, status, dqrs, ri>>

\* line 177: the loop over the lines is over
EndLines ==
    /\ pc = "lines"
    /\ li > Len(dqrs)
    /\ ri' = 1
    /\ pc' = "add_tests"
    /\ UNCHANGED <<args, cleaned, qc_tests, variable, error, datastream, vi,
                   requests, status, dqrs, li, dqr_results, console>>

\* faulty variant: the IndexError is not caught
AddTest_Propagates ==
    /\ pc = "add_tests"
    /\ ri <= Len(dqr_results)
    /\ LET value == dqr_results[ri]
       IN  IF AddTestRaises(var_name, value.index, qc_len)
           THEN /\ error' = "IndexError"
                /\ pc' = "raised"
                /\ UNCHANGED <<qc_tests, ri>>
           ELSE /\ qc_tests' = AddTestResult(qc_tests, var_name, value)
                /\ ri' = ri + 1
                /\ UNCHANGED <<pc, error>>
    /\ UNCHANGED <<args, cleaned, variable, datastream, vi, requests, status,
                   dqrs, li, dqr_results, console>>

\* lines 177-186: one iteration of `for key, value in dqr_results.items()`
AddTest ==
    /\ pc = "add_tests"
    /\ ri <= Len(dqr_results)
    /\ LET value == dqr_results[ri]
       IN  IF AddTestRaises(var_name, value.index, qc_len)
           THEN /\ console' = Append(console, [kind |-> "skip", var_name |-> var_name])
                /\ UNCHANGED qc_tests
           ELSE /\ qc_tests' = AddTestResult(qc_tests, var_name, value)
                /\ UNCHANGED console
    /\ ri' = ri + 1
    /\ UNCHANGED <<args, cleaned, variable, pc, error, datastream, vi,
                   requests, status, dqrs, li, dqr_results>>

\* lines 188-189, and back to line 112.  The locals of the finished
\* iteration are dead from here on (lines 129-141 assign them again before
\* any read), so they are returned to their initial values.
Normalize ==
    /\ pc = "add_tests"
    /\ ri > Len(dqr_results)
    /\ qc_tests' = IF normalize_assessment
                   THEN NormalizeResult(qc_tests, var_name) ELSE qc_tests
    /\ vi' = vi + 1
    /\ pc' = "loop"
    /\ status' = 0
    /\ dqrs' = <<>>
    /\ li' = 0
    /\ dqr_results' = <<>>
    /\ ri' = 0
    /\ UNCHANGED <<args, cleaned, variable, error, datastream, requests, console>>

\* line 191
Return ==
    /\ pc = "loop"
    /\ vi > Len(variable.val)
    /\ pc' = "returned"
    /\ UNCHANGED <<args, cleaned, qc_tests, variable, error, datastream, vi,
                   requests, status, dqrs, li, dqr_results, ri, console>>

Next ==
    \/ GetDatastream
    \/ ResolveVariables
    \/ SkipLocationVar
    \/ Request
    \/ ParseLine
    \/ EndLines
    \/ AddTest
    \/ Normalize
    \/ Return

Spec == Init /\ [][Next]_vars

TypeOK ==
    /\ pc \in {"start", "cleanup", "loop", "lines", "add_tests", "returned", "raised"}
    /\ status \in StatusCodes \cup {0}

-----------------------------------------------------------------------------
(* Vocabulary of the properties *)

\* the identifying name of the dataset, <<>> when it carries neither attribute
IdentifyingName ==
    IF "datastream" \in DOMAIN ds_attrs THEN <<ds_attrs["datastream"]>>
    ELSE IF "_datastream" \in DOMAIN ds_attrs THEN <<ds_attrs["_datastream"]>>
    ELSE <<>>

LocationNames == {"lat", "lon", "alt", "latitude", "longitude", "altitude"}

\* the positions of the time coordinate inside the line's inclusive range
Hits(line) == { p \in DOMAIN time : line[2] <= time[p] /\ time[p] <= line[3] }

\* the id passes the exclude and the include list
Passes(id) ==
    /\ exclude.isNone \/ id \notin exclude.val
    /\ include.isNone \/ id \in include.val

\* the lines of the current response that carry the id
LinesOf(id) == { j \in DOMAIN dqrs : dqrs[j][1] = id }

\* the tests registered on v for the id
TestsOf(v, id) == { i \in DOMAIN qc_tests[v] : qc_tests[v][i].test_meaning[1] = id }

\* the console lines of one kind
Notices(out, kind) == { i \in DOMAIN out : out[i].kind = kind }

\* a variable's response is being processed
InIteration == pc \in {"lines", "add_tests"}

\* every aggregated report of the current variable has been handed to add_test
RegistrationDone == pc = "add_tests" /\ ri > Len(dqr_results)

\* the host accepts every position of the current variable
HostAccepts(v) == qc_len[v] >= Cardinality(Positions(v))

ConfigErrors == {"ValueError: Dataset does not have datastream attribute",
                 "ValueError: 'datastream' name set to default value"}

-----------------------------------------------------------------------------
(* Properties *)

\* C1: a dataset with neither 'datastream' nor '_datastream', or whose
\* identifying name is the default placeholder, makes the call fail with a
\* configuration error before any request is issued.
C1_FailsBeforeAnyRequest ==
    (IdentifyingName = <<>> \/ IdentifyingName = <<DEFAULT_DATASTREAM_NAME>>) =>
        /\ requests = <<>>
        /\ pc \in {"start", "raised"}
        /\ pc = "raised" => error \in ConfigErrors
        /\ \A v \in data_vars : qc_tests[v] = <<>>

C1_Witness ==
    /\ pc = "raised"
    /\ error = "ValueError: 'datastream' name set to default value"
    /\ DOMAIN ds_attrs = {"datastream", "_datastream"}
    /\ requests = <<>>
    /\ dqr_link

\* C2: for a time-indexed variable, two lines with the same report id and
\* disjoint ranges that both contain timestamps give exactly one test for the
\* id, whose positions are the union of the positions of both ranges.  The
\* right-hand side does not depend on the order of the lines, and both orders
\* are reachable responses.
C2_MergedIndexIsUnion ==
    \A id \in DqrIds :
        ( /\ RegistrationDone
          /\ "time" \in dims(var_name)
          /\ HostAccepts(var_name)
          /\ Passes(id)
          /\ Cardinality(LinesOf(id)) = 2
          /\ \A j \in LinesOf(id) : Hits(dqrs[j]) # {}
          /\ \A j, k \in LinesOf(id) : j # k => Hits(dqrs[j]) \cap Hits(dqrs[k]) = {} )
        => /\ Cardinality(TestsOf(var_name, id)) = 1
           /\ \A i \in TestsOf(var_name, id) :
                 /\ Range(qc_tests[var_name][i].index)
                       = UNION { Hits(dqrs[j]) : j \in LinesOf(id) }
                 /\ Len(qc_tests[var_name][i].index)
                       = Cardinality(UNION { Hits(dqrs[j]) : j \in LinesOf(id) })

C2_Witness ==
    /\ RegistrationDone
    /\ var_name = "temp_mean"
    /\ Len(dqrs) = 2
    /\ dqrs[1][1] = "D1" /\ dqrs[2][1] = "D1"
    /\ Hits(dqrs[1]) = 1..(TimeLen - 1) /\ Hits(dqrs[2]) = {0}
    /\ Len(qc_tests["temp_mean"]) = 1
    /\ Range(qc_tests["temp_mean"][1].index) = 0..(TimeLen - 1)

\* C3 as claimed: a variable without time dimension gets, for every report id
\* returned for it that passes the filters, a test covering all its positions,
\* whatever the range of the report.
C3_EveryReturnedIdCoversAll ==
    \A id \in DqrIds :
        ( /\ RegistrationDone
          /\ "time" \notin dims(var_name)
          /\ Passes(id)
          /\ LinesOf(id) # {} )
        => \E i \in TestsOf(var_name, id) :
              Range(qc_tests[var_name][i].index) = Positions(var_name)

\* C3 amended: the test covering all positions is registered for every
\* returned id that passes the filters and has at least one line whose range
\* contains a timestamp of the time coordinate.
C3_IdWithTimestampCoversAll ==
    \A id \in DqrIds :
        ( /\ RegistrationDone
          /\ "time" \notin dims(var_name)
          /\ Passes(id)
          /\ \E j \in LinesOf(id) : Hits(dqrs[j]) # {} )
        => /\ Cardinality(TestsOf(var_name, id)) = 1
           /\ \A i \in TestsOf(var_name, id) :
                 Range(qc_tests[var_name][i].index) = Positions(var_name)

C3_Witness ==
    /\ RegistrationDone
    /\ var_name = "lat"
    /\ Len(dqrs) = 1
    /\ Hits(dqrs[1]) = {0}
    /\ Len(qc_tests["lat"]) = 1
    /\ Range(qc_tests["lat"][1].index) = 0..(LatLen - 1)

\* C4: every status outside 2xx is an error: the call fails and the body is
\* never parsed.
C4_NonSuccessIsError ==
    (status # 0 /\ status \notin 200..299) => pc = "raised"

\* C5: with status 400 or 500 the call fails at once: no test on that variable,
\* no request and no test for a later variable, one request for the variable,
\* and the failure instead of a return.
C5_FatalStatusAborts ==
    status \in {400, 500} =>
        /\ pc = "raised"
        /\ error = (IF status = 400 THEN "ValueError: Check parameters"
                    ELSE "ValueError: DQR Webservice Temporarily Down")
        /\ requests[Len(requests)] = var_name
        /\ Cardinality({ i \in DOMAIN requests : requests[i] = var_name }) = 1
        /\ qc_tests[var_name] = <<>>
        /\ \A j \in (vi + 1)..Len(variable.val) :
              /\ variable.val[j] \notin Range(requests)
              /\ qc_tests[variable.val[j]] = <<>>
        /\ ~ENABLED Next

C5_Witness ==
    /\ pc = "raised"
    /\ status = 500
    /\ vi = 1
    /\ variable.val = <<"temp_mean", "lat">>
    /\ requests = <<"temp_mean">>

\* C6: a report id becomes a test only if it is not excluded and, when an
\* include list is given, is included; an id in both lists is never
\* registered, and a filtered-out line enters no aggregated record.
C6_OnlyPassingIdsRegistered ==
    /\ \A v \in data_vars : \A i \in DOMAIN qc_tests[v] :
          Passes(qc_tests[v][i].test_meaning[1])
    /\ \A k \in Keys(dqr_results) : Passes(k)
    /\ \A i \in DOMAIN dqr_results :
          Len(dqr_results[i].index) > 0 => Passes(dqr_results[i].test_meaning[1])

C6_Witness ==
    /\ RegistrationDone
    /\ exclude.isNone /\ include = Some({"D1"})
    /\ Len(dqrs) = 2
    /\ dqrs[1][1] = "D2" /\ dqrs[2][1] = "D1"
    /\ Hits(dqrs[1]) # {} /\ Hits(dqrs[2]) # {}
    /\ Len(qc_tests[var_name]) = 1
    /\ qc_tests[var_name][1].test_meaning[1] = "D1"

\* C7: a line whose range contains no timestamp of the time coordinate is
\* dropped silently: it creates no record, adds no position to a record of its
\* id, raises nothing, and an id with only such lines gets no test.
C7_LineWithoutTimestampDropped ==
    InIteration =>
        /\ error = ""
        /\ \A id \in DqrIds :
              LET read == { j \in LinesOf(id) : j < li }
              IN  /\ (\A j \in read : Hits(dqrs[j]) = {}) =>
                        /\ id \notin Keys(dqr_results)
                        /\ TestsOf(var_name, id) = {}
                  /\ ("time" \in dims(var_name) /\ id \in Keys(dqr_results)) =>
                        Range(dqr_results[KeyPos(dqr_results, id)].index)
                            = UNION { Hits(dqrs[j]) : j \in read }

C7_Witness ==
    /\ RegistrationDone
    /\ var_name = "temp_mean"
    /\ Len(dqrs) = 2
    /\ dqrs[1][1] = "D1" /\ dqrs[2][1] = "D1"
    /\ Hits(dqrs[1]) = {0} /\ Hits(dqrs[2]) = {}
    /\ Len(qc_tests["temp_mean"]) = 1
    /\ qc_tests["temp_mean"][1].index = <<0>>

\* C8: with skip_location_vars=True and variable=None no request is issued and
\* no test registered for a location variable, and a call that returns has
\* queried every other resolved variable.
C8_LocationVarsNeverQueried ==
    (skip_location_vars /\ variable.kind = "None") =>
        /\ \A i \in DOMAIN requests : requests[i] \notin LocationNames
        /\ \A v \in data_vars \cap LocationNames : qc_tests[v] = <<>>
        /\ pc = "returned" =>
              /\ Range(variable.val) = data_vars \ matched_qc_variables
              /\ \A v \in Range(variable.val) \ LocationNames : v \in Range(requests)

C8_Witness ==
    /\ pc = "returned"
    /\ skip_location_vars /\ variable.kind = "None"
    /\ "lat" \in Range(variable.val)
    /\ requests = <<"temp_mean">>
    /\ qc_tests["temp_mean"] # <<>>

\* C9: an IndexError raised while one aggregated report is registered is
\* caught: a notice is printed, the remaining reports of the variable are
\* still handed to add_test, the later variables are still requested, and the
\* failure never leaves the call.
C9_IndexErrorRecovered ==
    /\ pc = "raised" => error \in ConfigErrors \cup {"ValueError: Check parameters",
                                      "ValueError: DQR Webservice Temporarily Down"}
    /\ pc = "add_tests" =>
          LET done == { j \in DOMAIN dqr_results : j < ri }
              rejected == { j \in done : \E i \in DOMAIN dqr_results[j].index :
                                            dqr_results[j].index[i] >= qc_len[var_name] }
          IN  /\ Cardinality({ i \in Notices(console, "skip") :
                                 console[i].var_name = var_name })
                    = Cardinality(rejected)
              /\ Len(qc_tests[var_name]) = Cardinality(done \ rejected)
    /\ pc = "returned" =>
          \A j \in DOMAIN variable.val :
              (skip_location_vars /\ variable.val[j] \in LocationNames)
                  \/ variable.val[j] \in Range(requests)

C9_Witness ==
    /\ pc = "returned"
    /\ variable.val = <<"temp_mean", "lat">>
    /\ requests = <<"temp_mean", "lat">>
    /\ Notices(console, "skip") # {}
    /\ console[1] = [kind |-> "skip", var_name |-> "temp_mean"]
    /\ Len(qc_tests["temp_mean"]) = 1
    /\ Len(qc_tests["lat"]) = 1

\* C10 as claimed: with dqr_link=True the notice of a report id is printed once
\* in the call and never again for a later line carrying the same id.
C10_OneNoticePerId ==
    \A id \in DqrIds :
        Cardinality({ i \in Notices(console, "link") : console[i].dqr_no = id }) <= 1

\* C10 amended: a step prints the notice of a report id exactly when dqr_link
\* is set and the step creates the aggregated record of that id, which happens
\* once per id in each variable's response; no other step prints a notice,
\* and with dqr_link=False none is ever printed.
C10_NoticePerCreatedRecord ==
    [][ LET created == Keys(dqr_results') \ Keys(dqr_results)
            before == Notices(console, "link")
            after == Notices(console', "link")
        IN  /\ before \subseteq after
            /\ \A i \in before : console'[i] = console[i]
            /\ Cardinality(after \ before) = (IF dqr_link THEN Cardinality(created) ELSE 0)
            /\ \A i \in after \ before : console'[i].dqr_no \in created ]_vars

C10_Witness ==
    /\ RegistrationDone
    /\ dqr_link
    /\ vi = 2
    /\ Len(dqrs) = 2 /\ dqrs[1][1] = "D1" /\ dqrs[2][1] = "D1"
    /\ Len(dqr_results) = 1
    /\ Len(dqr_results[1].index) > Cardinality(Hits(dqrs[1]))
    /\ Cardinality({ i \in Notices(console, "link") : console[i].dqr_no = "D1" }) = 2

====
